---------------------------- MODULE Spec2Model ----------------------------
(***************************************************************************)
(* A model of the i18n library (class I18n) and of the page wiring of      *)
(* main.js.                                                                *)
(*                                                                         *)
(* Strings whose characters matter (translation keys, templates) are       *)
(* sequences of symbols.  A symbol is one character (".", "{", "}", " ")   *)
(* or a word: a fixed run of letters, written as one symbol.  No word is a *)
(* concatenation of other words, so two symbol sequences are equal exactly *)
(* when the JavaScript strings they stand for are equal.                   *)
(*                                                                         *)
(* A JSON value is a record [t, s, f]: t is its typeof-like tag, s the     *)
(* characters of a string, f the own properties of an object.              *)
(***************************************************************************)
EXTENDS Naturals, Sequences, FiniteSets, TLC

VARIABLES
    currentLang,    \* this.currentLang
    translations,   \* this.translations
    storage,        \* localStorage[this.storageKey], NULL when absent
    storageDown,    \* TRUE when every access to localStorage raises
    urlParam,       \* the lang query parameter of window.location, NULL when absent
    historyDown,    \* TRUE when history.replaceState raises
    browserLang,    \* navigator.language
    htmlLang,       \* the lang attribute of the document element
    opacity,        \* document.body.style.opacity
    bodyClass,      \* "i18n-loading" or "i18n-ready" on document.body
    langDisplay,    \* the language the two label elements show (updateLanguageDisplay)
    dom,            \* what each bound element of the page holds
    initCall,       \* the init() call: its position and the load it awaits
    calls,          \* the switchLanguage calls, in the order they were invoked
    events,         \* the languageChanged notifications dispatched so far
    lkTree, lkKey, lkResult,     \* one getTranslation evaluation
    ipText, ipVars, ipResult,    \* one interpolate evaluation
    menuActive,     \* per mobile dropdown: its menu has the class 'active'
    chevronRotated, \* per mobile dropdown: its chevron has the class 'rotate-180'
    clicks          \* the dropdown triggers clicked so far, in order

mainVars == <<currentLang, translations, storage, storageDown, urlParam,
              historyDown,
              browserLang, htmlLang, opacity, bodyClass, langDisplay, dom,
              initCall, calls, events>>
lkVars == <<lkTree, lkKey, lkResult>>
ipVars3 == <<ipText, ipVars, ipResult>>
accVars == <<menuActive, chevronRotated, clicks>>
vars == <<mainVars, lkVars, ipVars3, accVars>>

NULL == "null(absent)"

(***************************************************************************)
(* Bounds of the model.                                                    *)
(***************************************************************************)
MaxCalls == 2     \* switchLanguage calls in one behaviour
MaxKeyLen == 5    \* symbols in a looked-up key
MaxTextLen == 6   \* symbols in an interpolated template
NumDropdowns == 3 \* mobile dropdowns on the page
MaxClicks == 3    \* clicks on dropdown triggers in one behaviour

(***************************************************************************)
(* JSON values and JavaScript objects.                                     *)
(***************************************************************************)
Str(s) == [t |-> "string", s |-> s, f |-> <<>>]
Null == [t |-> "null", s |-> <<>>, f |-> <<>>]
Obj(f) == [t |-> "object", s |-> <<>>, f |-> f]
\* the function an object inherits under `name`; s is String() of it
Fn(name) ==
    [t |-> "function",
     s |-> <<"function", " ", IF name = "constructor" THEN "Object" ELSE name,
             "()", " ", "{", " ", "[native code]", " ", "}">>,
     f |-> <<>>]
EmptyTree == Obj(<<>>)
\* the result of an evaluation that has not run yet
NONE == [t |-> "none", s |-> <<>>, f |-> <<>>]

\* Names every object inherits from Object.prototype (two of them).
ProtoKeys == {<<"constructor">>, <<"toString">>}

\* `k in value` for an object value: own properties and inherited ones.
HasIn(value, k) == k \in DOMAIN value.f \/ k \in ProtoKeys

\* value[k] for an object value.
Get(value, k) == IF k \in DOMAIN value.f THEN value.f[k] ELSE Fn(k[1])

\* key.split('.'): the segments between the dots.
RECURSIVE SplitFrom(_, _, _)
SplitFrom(key, i, cur) ==
    IF i > Len(key) THEN <<cur>>
    ELSE IF key[i] = "." THEN <<cur>> \o SplitFrom(key, i + 1, <<>>)
    ELSE SplitFrom(key, i + 1, Append(cur, key[i]))
Split(key) == SplitFrom(key, 1, <<>>)

\* getTranslation: the walk over the segments, from `value` at segment i.
RECURSIVE Walk(_, _, _, _)
Walk(value, keys, i, key) ==
    IF i > Len(keys) THEN value
    ELSE IF value.t = "object" /\ HasIn(value, keys[i])
         THEN Walk(Get(value, keys[i]), keys, i + 1, key)
         ELSE Str(key)
GetTranslation(tree, key) == Walk(tree, Split(key), 1, key)


(***************************************************************************)
(* interpolate(text, vars): text.replace(/\{\{(\w+)\}\}/g, ...).            *)
(***************************************************************************)
\* The symbols that are not runs of word characters.
Punct == {".", "{", "}", " ", "<", ">", "/", "()", "[native code]", "[object Object]"}
IsWord(sym) == sym \notin Punct

\* The first position from i on that holds no word symbol: the end of \w+.
RECURSIVE WordEnd(_, _)
WordEnd(text, i) ==
    IF i > Len(text) \/ ~IsWord(text[i]) THEN i ELSE WordEnd(text, i + 1)

\* String(v), as String.prototype.replace converts what the callback returns.
ToStr(v) ==
    CASE v.t = "string" -> v.s
      [] v.t = "null" -> <<"null">>
      [] v.t = "function" -> v.s
      [] OTHER -> <<"[object Object]">>

\* vars[key] !== undefined: own properties and inherited ones.
Defined(v, key) == key \in DOMAIN v.f \/ key \in ProtoKeys

\* The callback: (match, key) => vars[key] !== undefined ? vars[key] : match
Replacer(match, key, v) ==
    IF Defined(v, key) THEN ToStr(Get(v, key)) ELSE match

\* The global replace, scanning from position i.
RECURSIVE Scan(_, _, _)
Scan(text, i, v) ==
    IF i > Len(text) THEN <<>>
    ELSE LET j == WordEnd(text, i + 2)
             isMatch == /\ i + 1 <= Len(text)
                        /\ text[i] = "{" /\ text[i + 1] = "{"
                        /\ j > i + 2
                        /\ j + 1 <= Len(text)
                        /\ text[j] = "}" /\ text[j + 1] = "}"
         IN IF isMatch
            THEN Replacer(SubSeq(text, i, j + 1), SubSeq(text, i + 2, j - 1), v)
                     \o Scan(text, j + 2, v)
            ELSE <<text[i]>> \o Scan(text, i + 1, v)
Interpolate(text, v) == Scan(text, 1, v)

(***************************************************************************)
(* Language codes.  A code is a TLA+ string; Chars gives its characters    *)
(* where the code reads them (split, startsWith).                          *)
(***************************************************************************)
supportedLanguages == <<"en", "zh-TW", "zh-CN">>
defaultLang == "en"
Supported == {supportedLanguages[i] : i \in DOMAIN supportedLanguages}

Chars(code) ==
    CASE code = "en" -> <<"e", "n">>
      [] code = "zh-TW" -> <<"z", "h", "-", "T", "W">>
      [] code = "zh-CN" -> <<"z", "h", "-", "C", "N">>
      [] code = "zh-HK" -> <<"z", "h", "-", "H", "K">>
      [] code = "fr-FR" -> <<"f", "r", "-", "F", "R">>
      [] code = "fr" -> <<"f", "r">>
      [] OTHER -> <<>>

\* this.supportedLanguages.includes(lang)
Includes(lang) == lang \in Supported

\* a JavaScript value used as a condition: null and "" are falsy
Truthy(v) == v # NULL /\ v # ""

\* browserLang.split('-')[0]
RECURSIVE UpToDash(_, _)
UpToDash(cs, i) ==
    IF i > Len(cs) \/ cs[i] = "-" THEN <<>> ELSE <<cs[i]>> \o UpToDash(cs, i + 1)

\* lang.startsWith(langCode)
StartsWith(cs, prefix) ==
    Len(prefix) <= Len(cs) /\ SubSeq(cs, 1, Len(prefix)) = prefix

\* navigator.language || navigator.userLanguage: when neither is set the value
\* is undefined, it is in no list, and line 226 calls split on undefined, which
\* raises a TypeError that nothing catches
DetectRaises(nav) == ~Truthy(nav)

\* detectBrowserLanguage(), for a locale that is a string
DetectBrowserLanguage(nav) ==
    IF Includes(nav) THEN nav
    ELSE LET langCode == UpToDash(Chars(nav), 1)
             hits == {i \in DOMAIN supportedLanguages :
                         StartsWith(Chars(supportedLanguages[i]), langCode)}
         IN IF hits # {}
            THEN supportedLanguages[CHOOSE i \in hits : \A j \in hits : i <= j]
            ELSE defaultLang

\* getSavedLanguage(): localStorage.getItem, null when it raises
GetSavedLanguage(down, slot) == IF down THEN NULL ELSE slot

\* getUrlLanguage()
GetUrlLanguage(param) ==
    IF Truthy(param) /\ Includes(param) THEN param ELSE NULL

\* urlLang || savedLang || browserLang || this.defaultLang
InitialLanguage(param, down, slot, nav) ==
    LET savedLang == GetSavedLanguage(down, slot)
        detected == DetectBrowserLanguage(nav)
        urlLang == GetUrlLanguage(param)
    IN IF Truthy(urlLang) THEN urlLang
       ELSE IF Truthy(savedLang) THEN savedLang
       ELSE IF Truthy(detected) THEN detected
       ELSE defaultLang

(***************************************************************************)
(* The translation resources i18n/translations/<lang>.json.  The three     *)
(* files share the keys nav.home and hello; zh-CN.json has one more.  No   *)
(* file exists for a code outside the supported set.                       *)
(***************************************************************************)
Template(word) == Str(<<word, " ", "{", "{", "name", "}", "}">>)
Markup(word) == Str(<<"<", "b", ">", word, "<", "/", "b", ">">>)

Resource(lang) ==
    CASE lang = "en" ->
           Obj((<<"nav">> :> Obj(<<"home">> :> Str(<<"Home">>)))
               @@ (<<"hello">> :> Template("Hello"))
               @@ (<<"rich">> :> Markup("Hi")))
      [] lang = "zh-TW" ->
           Obj((<<"nav">> :> Obj(<<"home">> :> Str(<<"HomeTW">>)))
               @@ (<<"hello">> :> Template("HelloTW"))
               @@ (<<"rich">> :> Markup("HiTW")))
      [] lang = "zh-CN" ->
           Obj((<<"nav">> :> Obj(<<"home">> :> Str(<<"HomeCN">>)))
               @@ (<<"hello">> :> Template("HelloCN"))
               @@ (<<"rich">> :> Str(<<"HiCN">>))
               @@ (<<"promo">> :> Str(<<"PromoCN">>)))
      [] OTHER -> EmptyTree

\* The dot-keys of a tree, two levels deep.
DotKeys(tree) ==
    DOMAIN tree.f
        \cup UNION {{k \o <<".">> \o k2 : k2 \in DOMAIN tree.f[k].f} :
                       k \in DOMAIN tree.f}
\* The dot-keys present in a language's resource.
ResourceKeys(lang) == DotKeys(Resource(lang))

\* Whether a fetch of <lang>.json can succeed at all.
Fetchable(lang) == lang \in Supported

(***************************************************************************)
(* loadTranslations(lang), from the settling of its fetch on.  A load is   *)
(* a record: target is the language whose file is being fetched (the lang  *)
(* of the innermost loadTranslations call), fetches counts the fetches     *)
(* started, loadOk is the value the outermost call returns.                *)
(***************************************************************************)
\* The tree after the fetch of load.target settled with `ok`.
TreeAfterMerge(load, ok, tree) ==
    IF ok THEN Obj(tree.f @@ Resource(load.target).f) ELSE tree
TreeAfterAlways(load, ok, tree) == Resource(load.target)
TreeAfterKept(load, ok, tree) == tree
TreeAfterDefault(load, ok, tree) == IF ok THEN Resource(defaultLang) ELSE tree
TreeAfter(load, ok, tree) ==
    IF ok THEN Resource(load.target) ELSE tree

\* The load after the fetch of load.target settled with `ok`.
LoadAfterRetry(load, ok) ==
    IF ok THEN [load EXCEPT !.pc = "loaded", !.loadOk = TRUE]
    ELSE IF load.fetches < 3
         THEN [load EXCEPT !.target = defaultLang, !.fetches = @ + 1]
         ELSE [load EXCEPT !.pc = "loaded", !.loadOk = FALSE]
LoadAfter(load, ok) ==
    IF ok THEN [load EXCEPT !.pc = "loaded", !.loadOk = TRUE]
    ELSE IF load.target # defaultLang
         THEN [load EXCEPT !.target = defaultLang, !.fetches = @ + 1]
         ELSE [load EXCEPT !.pc = "loaded", !.loadOk = FALSE]

\* A call that has just started its first fetch.
NewLoad(lang) ==
    [lang |-> lang, pc |-> "fetching", target |-> lang, fetches |-> 1,
     loadOk |-> FALSE, ret |-> FALSE, alone |-> TRUE, order |-> 0]

(***************************************************************************)
(* applyTranslations(), lines 90-145.  The page's bound elements: each has *)
(* one binding (data-i18n, data-i18n-placeholder, data-i18n-alt or         *)
(* data-i18n-title), its key, and for a text binding the data-i18n-vars    *)
(* payload.  An element holds what was last assigned to its text or to the *)
(* bound attribute, and how.                                               *)
(***************************************************************************)
NoVars == NONE
Malformed == [t |-> "malformed", s |-> <<>>, f |-> <<>>]
Bound(bind, key, payload) == [bind |-> bind, key |-> key, vars |-> payload]

Elements ==
    << Bound("text", <<"nav", ".", "home">>, NoVars),
       Bound("text", <<"hello">>, Obj(<<"name">> :> Str(<<"Sam">>))),
       Bound("text", <<"hello">>, Malformed),
       Bound("text", <<"rich">>, NoVars),
       Bound("text", <<"nav">>, NoVars),
       Bound("placeholder", <<"nav", ".", "home">>, NoVars),
       Bound("title", <<"nav">>, NoVars),
       Bound("alt", <<"promo">>, NoVars),
       Bound("text", <<"rich">>, Obj(<<"name">> :> Str(<<"Sam">>))) >>

Held(how, value) == [how |-> how, value |-> value]
StaticPage == [e \in DOMAIN Elements |-> Held("static", <<>>)]

\* a value used as a condition: null and "" are falsy
TruthyValue(v) == v.t # "null" /\ ~(v.t = "string" /\ v.s = <<>>)

\* translation.includes('<')
HasMarkup(text) == \E k \in DOMAIN text : text[k] = "<"

\* lines 93-116: one element with a text binding
ApplyText(el, tree, held) ==
    LET translation == GetTranslation(tree, el.key)
    IN IF TruthyValue(translation) /\ translation.t = "string"
       THEN IF el.vars # NoVars
            THEN IF el.vars = Malformed
                 THEN Held("textContent", translation.s)
                 ELSE Held("textContent", Interpolate(translation.s, el.vars))
            ELSE IF HasMarkup(translation.s)
                 THEN Held("innerHTML", translation.s)
                 ELSE Held("textContent", translation.s)
       ELSE held

\* lines 120-144: one element with an attribute binding
ApplyAttribute(el, tree, held) ==
    LET translation == GetTranslation(tree, el.key)
    IN IF TruthyValue(translation)
       THEN Held("setAttribute", ToStr(translation))
       ELSE held

\* applyTranslations() with this.translations = tree
ApplyTranslations(tree, page) ==
    [e \in DOMAIN Elements |->
        IF Elements[e].bind = "text"
        THEN ApplyText(Elements[e], tree, page[e])
        ELSE ApplyAttribute(Elements[e], tree, page[e])]

(***************************************************************************)
(* The state after construction (lines 3-9 and window.i18n = new I18n()),  *)
(* before DOMContentLoaded, for each content of the three channels.        *)
(***************************************************************************)
UrlValues == {NULL, "en", "zh-TW", "fr"}
StoredValues == {NULL, "en", "fr"}
BrowserValues == {"zh-CN", "zh-HK", "fr-FR"}
NoLocale == {NULL}
LangArgs == {"en", "zh-CN", "fr"}

\* The browser locale is varied where it decides the initial language: where
\* the URL parameter and the storage slot give none, and where the browser
\* reports none.  At most one of localStorage and history is down.
DecidedWithoutBrowser(param, down, slot) ==
    Truthy(GetUrlLanguage(param)) \/ Truthy(GetSavedLanguage(down, slot))

InitMain ==
    /\ currentLang = "en"
    /\ translations = EmptyTree
    /\ storageDown \in BOOLEAN
    /\ storage \in (IF storageDown THEN {NULL} ELSE StoredValues)
    /\ urlParam \in UrlValues
    /\ historyDown \in (IF storageDown THEN {FALSE} ELSE BOOLEAN)
    /\ browserLang \in NoLocale \cup
                       (IF DecidedWithoutBrowser(urlParam, storageDown, storage)
                        THEN {"zh-CN"} ELSE BrowserValues)
    /\ htmlLang = NULL
    /\ opacity = "1"
    /\ bodyClass = "i18n-loading"
    /\ langDisplay = NULL
    /\ dom = StaticPage
    /\ initCall = [NewLoad(NULL) EXCEPT !.pc = "start", !.fetches = 0]
    /\ calls = <<>>
    /\ events = <<>>

IdleLookup == lkTree = EmptyTree /\ lkKey = <<>> /\ lkResult = NONE
IdleInterp == ipText = <<>> /\ ipVars = EmptyTree /\ ipResult = NONE

\* the mobile dropdowns, all closed and untouched
Dropdowns == 1..NumDropdowns
AllClosed == [d \in Dropdowns |-> FALSE]
IdleAccordion ==
    menuActive = AllClosed /\ chevronRotated = AllClosed /\ clicks = <<>>

Init == InitMain /\ IdleLookup /\ IdleInterp /\ IdleAccordion

(***************************************************************************)
(* init(), lines 12-37, and the DOMContentLoaded handler of main.js.       *)
(***************************************************************************)
\* what no action of the i18n object changes: the environment, the two
\* evaluations and the mobile dropdowns
fixed == <<storageDown, historyDown, browserLang, lkVars, ipVars3, accVars>>

\* lines 14-26, up to the await of the fetch; when line 17 raises, init()
\* rejects there and the DOMContentLoaded handler, awaiting it at main.js
\* line 4, ends with it
InitStart ==
    /\ initCall.pc = "start"
    /\ IF DetectRaises(browserLang)
       THEN /\ initCall' = [initCall EXCEPT !.pc = "failed"]
            /\ UNCHANGED currentLang
       ELSE /\ currentLang' = InitialLanguage(urlParam, storageDown, storage,
                                              browserLang)
            /\ initCall' = NewLoad(currentLang')
    /\ UNCHANGED <<translations, storage, urlParam, htmlLang, opacity,
                   bodyClass, langDisplay, dom, calls, events, fixed>>

\* the fetch of init's load settles (lines 42-56)
InitFetchSettle ==
    /\ initCall.pc = "fetching"
    /\ \E ok \in BOOLEAN :
          /\ ok => Fetchable(initCall.target)
          /\ translations' = TreeAfter(initCall, ok, translations)
          /\ initCall' = LoadAfter(initCall, ok)
    /\ UNCHANGED <<currentLang, storage, urlParam, htmlLang, opacity,
                   bodyClass, langDisplay, dom, calls, events, fixed>>

\* lines 29-36
InitContinue ==
    /\ initCall.pc = "loaded"
    /\ dom' = ApplyTranslations(translations, dom)
    /\ htmlLang' = currentLang
    /\ bodyClass' = "i18n-ready"
    /\ initCall' = [initCall EXCEPT !.pc = "done"]
    /\ UNCHANGED <<currentLang, translations, storage, urlParam, opacity,
                   langDisplay, calls, events, fixed>>

\* main.js lines 7-32: updateLanguageDisplay(), then the handlers are registered
MainReady ==
    /\ initCall.pc = "done"
    /\ langDisplay' = currentLang
    /\ initCall' = [initCall EXCEPT !.pc = "ready"]
    /\ UNCHANGED <<currentLang, translations, storage, urlParam, htmlLang,
                   opacity, bodyClass, dom, calls, events, fixed>>

(***************************************************************************)
(* switchLanguage(lang), lines 60-87, invoked by a click on a .lang-option *)
(* (main.js lines 11-16).  A call is a load record with the argument lang, *)
(* the value returned (ret), alone: whether no other call has been in      *)
(* flight since this one was invoked, and order: the rank of its load      *)
(* among the loads that have resolved (0 while it has not, and for a call  *)
(* that was rejected).  What the click handler does after                  *)
(* the call (main.js lines 19-25) sets the display to the current          *)
(* language, which the listener of line 30 has done already.               *)
(***************************************************************************)
InFlight(c) == c.pc \in {"fetching", "loaded"}

\* The load of a call has returned and the call's continuation is queued as a
\* microtask.  The event loop runs the queued microtasks before it takes the
\* next task, and a click and the settling of a fetch are tasks: neither
\* happens while a continuation is ready.
ContinuationReady == \E i \in DOMAIN calls : calls[i].pc = "loaded"

\* lines 61-64: the check that lets a call through
AcceptsAll(lang) == TRUE
Accepts(lang) == Includes(lang)

\* lines 61-69, up to the await of the fetch
SwitchLanguage(lang) ==
    /\ initCall.pc = "ready"
    /\ ~ContinuationReady
    /\ Len(calls) < MaxCalls
    /\ IF ~Accepts(lang)
       THEN /\ calls' = Append(calls, [NewLoad(lang) EXCEPT
                                          !.pc = "rejected", !.fetches = 0])
            /\ UNCHANGED opacity
       ELSE /\ opacity' = "0.7"
            /\ LET busy == \E i \in DOMAIN calls : InFlight(calls[i])
                   old == [i \in DOMAIN calls |->
                              IF InFlight(calls[i])
                              THEN [calls[i] EXCEPT !.alone = FALSE]
                              ELSE calls[i]]
               IN calls' = Append(old, [NewLoad(lang) EXCEPT !.alone = ~busy])
    /\ UNCHANGED <<currentLang, translations, storage, urlParam, htmlLang,
                   bodyClass, langDisplay, dom, initCall, events, fixed>>

\* the load of a call resolves, after the loads of the calls in cs that have
ResolvedIn(cs) == {j \in DOMAIN cs : cs[j].order > 0}
Ranked(load, cs) ==
    IF load.pc = "loaded"
    THEN [load EXCEPT !.order = Cardinality(ResolvedIn(cs)) + 1]
    ELSE load

\* the fetch of call i's load settles (lines 42-56)
FetchSettle(i) ==
    /\ calls[i].pc = "fetching"
    /\ ~ContinuationReady
    /\ \E ok \in BOOLEAN :
          /\ ok => Fetchable(calls[i].target)
          /\ translations' = TreeAfter(calls[i], ok, translations)
          /\ calls' = [calls EXCEPT ![i] = Ranked(LoadAfter(calls[i], ok), calls)]
    /\ UNCHANGED <<currentLang, storage, urlParam, htmlLang, opacity,
                   bodyClass, langDisplay, dom, initCall, events, fixed>>

\* saveLanguage(lang), lines 172-178: the slot after the call
SaveLanguageDropped(down, slot, lang) == slot
SaveLanguageOnce(down, slot, lang) == IF down \/ slot # NULL THEN slot ELSE lang
SaveLanguage(down, slot, lang) == IF down THEN slot ELSE lang

\* updateUrlLanguage(lang), lines 202-214: the parameter after the call
UpdateUrlAlwaysSet(down, param, lang) == IF down THEN param ELSE lang
UpdateUrlUnlessSaveRaised(down, param, lang) ==
    IF down \/ storageDown THEN param
    ELSE IF lang # defaultLang THEN lang ELSE NULL
UpdateUrlLanguage(down, param, lang) ==
    IF down THEN param
    ELSE IF lang # defaultLang THEN lang ELSE NULL

\* the notification of lines 82-84; current is getCurrentLanguage() as the
\* listeners see it
NoEvent(lang, cur) == <<>>
LanguageChanged(lang, cur) == <<[language |-> lang, current |-> cur]>>

\* lines 70-86, run without suspension once the load has returned, and the
\* languageChanged listener of main.js lines 30-32
SwitchContinue(i) ==
    /\ calls[i].pc = "loaded"
    /\ currentLang' = calls[i].lang
    /\ storage' = SaveLanguage(storageDown, storage, calls[i].lang)
    /\ dom' = ApplyTranslations(translations, dom)
    /\ htmlLang' = calls[i].lang
    /\ urlParam' = UpdateUrlLanguage(historyDown, urlParam, calls[i].lang)
    /\ opacity' = "1"
    /\ events' = events \o LanguageChanged(calls[i].lang, currentLang')
    /\ langDisplay' = currentLang'
    /\ calls' = [calls EXCEPT ![i] = [@ EXCEPT !.pc = "returned", !.ret = TRUE]]
    /\ UNCHANGED <<translations, bodyClass, initCall, fixed>>

Next ==
    \/ InitStart
    \/ InitFetchSettle
    \/ InitContinue
    \/ MainReady
    \/ \E lang \in LangArgs : SwitchLanguage(lang)
    \/ \E i \in DOMAIN calls : FetchSettle(i)
    \/ \E i \in DOMAIN calls : SwitchContinue(i)

Spec == Init /\ [][Next]_vars

(***************************************************************************)
(* Steps of a behaviour, as the claims speak of them.                      *)
(***************************************************************************)
\* this step is the invocation of switchLanguage(lang)
Invoked(lang) ==
    /\ Len(calls') = Len(calls) + 1
    /\ calls'[Len(calls')].lang = lang

\* this step is the return of call i
Returned(i) == calls[i].pc = "loaded" /\ calls'[i].pc = "returned"

\* the calls other than i that are in flight
OthersInFlight(cs, i) == {j \in DOMAIN cs \ {i} : InFlight(cs[j])}

\* lookup(key) on the current tree
Lookup(key) == GetTranslation(translations, key)

(***************************************************************************)
(* C1: switchLanguage(L) for L outside the supported set returns false and *)
(* changes nothing: not the current language, the tree, the storage slot,  *)
(* the URL parameter, the opacity, the html lang or the display; it starts *)
(* no fetch and dispatches no languageChanged notification.                *)
(***************************************************************************)
C1_UnsupportedRejected ==
    [][\A lang \in LangArgs \ Supported :
          Invoked(lang) =>
              /\ calls'[Len(calls')].pc = "rejected"
              /\ calls'[Len(calls')].ret = FALSE
              /\ calls'[Len(calls')].fetches = 0
              /\ SubSeq(calls', 1, Len(calls)) = calls
              /\ UNCHANGED <<currentLang, translations, storage, urlParam,
                             opacity, htmlLang, langDisplay, dom, events,
                             bodyClass, initCall>>]_vars

\* an unsupported call was rejected while another call was in flight
C1_Witness ==
    \E i, j \in DOMAIN calls :
        /\ calls[i].pc = "rejected" /\ calls[i].lang = "fr"
        /\ calls[j].pc = "fetching" /\ opacity = "0.7"

(***************************************************************************)
(* C2 as stated: once switchLanguage(L) has returned with no other switch  *)
(* in flight, lookup(key) gives L's value for every key of L's resource.   *)
(***************************************************************************)
C2_Original ==
    [][\A i \in DOMAIN calls :
          (Returned(i) /\ OthersInFlight(calls', i) = {}) =>
              \A key \in ResourceKeys(calls[i].lang) :
                  Lookup(key)' = GetTranslation(Resource(calls[i].lang), key)]_vars

(***************************************************************************)
(* C2 amended: when the fetch of L's own resource succeeded, then once     *)
(* switchLanguage(L) has returned lookup(key) gives L's value for every    *)
(* key of L's resource, whether or not other calls are in flight.          *)
(***************************************************************************)
C2_LookupAfterSwitch ==
    [][\A i \in DOMAIN calls :
          (/\ Returned(i)
           /\ calls[i].loadOk /\ calls[i].target = calls[i].lang) =>
              \A key \in ResourceKeys(calls[i].lang) :
                  Lookup(key)' = GetTranslation(Resource(calls[i].lang), key)]_vars

\* zh-CN was switched to, with its own resource, from another tree
C2_Witness ==
    /\ Len(calls) = 2
    /\ calls[1].pc = "returned" /\ calls[1].lang = "en" /\ calls[1].loadOk
    /\ calls[2].pc = "returned" /\ calls[2].lang = "zh-CN"
    /\ calls[2].alone /\ calls[2].loadOk /\ calls[2].target = "zh-CN"
    /\ Lookup(<<"promo">>) = Str(<<"PromoCN">>)
    /\ Lookup(<<"nav", ".", "home">>) = Str(<<"HomeCN">>)

(***************************************************************************)
(* C3 as stated: for a non-default L whose fetch fails while the fetch of  *)
(* the default language succeeds, after switchLanguage(L) returns the tree *)
(* is the default language's, the current language is L, the storage slot  *)
(* holds L and the call returned true.                                     *)
(***************************************************************************)
FellBack(c) == c.lang # defaultLang /\ c.target = defaultLang /\ c.loadOk

C3_Original ==
    [][\A i \in DOMAIN calls :
          (Returned(i) /\ FellBack(calls[i])) =>
              /\ translations' = Resource(defaultLang)
              /\ currentLang' = calls[i].lang
              /\ storage' = calls[i].lang
              /\ calls'[i].ret = TRUE]_vars

(***************************************************************************)
(* C3 amended: for a non-default L whose fetch fails while the fetch of    *)
(* the default language succeeds, after switchLanguage(L) returns the      *)
(* tree is the default language's, the current language is L and the call  *)
(* returned true; the storage slot holds L when the storage write did not  *)
(* raise.                                                                  *)
(***************************************************************************)
C3_FallbackKeepsRequestedLanguage ==
    [][\A i \in DOMAIN calls :
          (Returned(i) /\ FellBack(calls[i])) =>
              /\ translations' = Resource(defaultLang)
              /\ currentLang' = calls[i].lang
              /\ ~storageDown => storage' = calls[i].lang
              /\ calls'[i].ret = TRUE]_vars

\* zh-CN was requested alone, fell back to en, and is the current language
C3_Witness ==
    /\ Len(calls) = 1
    /\ calls[1].pc = "returned" /\ FellBack(calls[1]) /\ calls[1].alone
    /\ calls[1].lang = "zh-CN" /\ calls[1].fetches = 2
    /\ ~storageDown
    /\ translations = Resource("en")
    /\ currentLang = "zh-CN" /\ storage = "zh-CN"

(***************************************************************************)
(* C4 as stated: once init has chosen it, the current language is always   *)
(* a member of the supported set, whatever the URL parameter, the storage  *)
(* slot and the browser locale held, and so is the language applied to the *)
(* document; every code a switchLanguage call has written to the storage   *)
(* slot is a member of the supported set.                                  *)
(***************************************************************************)
C4_Original ==
    /\ initCall.pc # "start" => currentLang \in Supported
    /\ htmlLang # NULL => htmlLang \in Supported
    /\ \A i \in DOMAIN calls :
          calls[i].pc = "returned" => calls[i].lang \in Supported

(***************************************************************************)
(* C5 as stated: the language init chooses is the URL value if supported,  *)
(* else the stored preference if supported, else the browser locale if it  *)
(* is a supported code, else a supported code with the browser locale's    *)
(* primary subtag, else the default language.                              *)
(***************************************************************************)
\* the primary subtag of a code
Primary(code) == UpToDash(Chars(code), 1)

ReferenceLanguage(param, stored, nav) ==
    IF param \in Supported THEN param
    ELSE IF stored \in Supported THEN stored
    ELSE IF nav \in Supported THEN nav
    ELSE LET same == {i \in DOMAIN supportedLanguages :
                         Primary(supportedLanguages[i]) = Primary(nav)}
         IN IF same # {}
            THEN supportedLanguages[CHOOSE i \in same : \A j \in same : i <= j]
            ELSE defaultLang

C5_Original ==
    (initCall.pc # "start" /\ calls = <<>>) =>
        currentLang = ReferenceLanguage(urlParam,
                                        GetSavedLanguage(storageDown, storage),
                                        browserLang)

(***************************************************************************)
(* C6: a load replaces the tree only as a whole and only when a fetch      *)
(* succeeded: the tree is always empty or one language's whole resource; a *)
(* step changes it only by settling a fetch successfully, to the resource  *)
(* of the language fetched; a load that ends in failure (the fetch failed  *)
(* for the default language, directly or after the fallback) leaves the    *)
(* tree as it was and returns false; the fallback step leaves it too.      *)
(***************************************************************************)
WholeTrees == {EmptyTree} \cup {Resource(l) : l \in Supported}

\* what a step may do to the tree while it moves one load from a to b
LoadStepOk(a, b) ==
    /\ (a.pc = "fetching" /\ b.pc = "loaded" /\ b.loadOk) =>
           translations' = Resource(a.target)
    /\ (a.pc = "fetching" /\ b.pc = "loaded" /\ ~b.loadOk) =>
           translations' = translations /\ a.target = defaultLang
    /\ (a.pc = "fetching" /\ b.pc = "fetching" /\ b.fetches > a.fetches) =>
           /\ translations' = translations
           /\ a.target # defaultLang /\ b.target = defaultLang
           /\ a.fetches = 1

\* the loads a step moves
Settles(a, b) == a.pc = "fetching" /\ a # b

C6_TreeReplacedWhole ==
    [][/\ translations' \in WholeTrees
       /\ LoadStepOk(initCall, initCall')
       /\ \A i \in DOMAIN calls : LoadStepOk(calls[i], calls'[i])
       /\ translations' # translations =>
             \/ Settles(initCall, initCall') /\ initCall'.loadOk
             \/ \E i \in DOMAIN calls :
                   Settles(calls[i], calls'[i]) /\ calls'[i].loadOk]_vars

\* a load of zh-CN failed twice and left the tree of an earlier switch
C6_Witness ==
    \E i \in DOMAIN calls :
        /\ calls[i].pc = "loaded" /\ ~calls[i].loadOk
        /\ calls[i].lang = "zh-CN" /\ calls[i].fetches = 2
        /\ translations = Resource("zh-TW")

(***************************************************************************)
(* C7: every switchLanguage call that returned true has dispatched exactly *)
(* one languageChanged notification, carrying its language; a rejected     *)
(* call has dispatched none; when a notification was dispatched the        *)
(* current language was the one it carries, and the listener of main.js    *)
(* has refreshed the display to the current language.                      *)
(***************************************************************************)
EventsOf(lang) == {k \in DOMAIN events : events[k].language = lang}
ReturnedTrue(lang) ==
    {i \in DOMAIN calls :
        calls[i].pc = "returned" /\ calls[i].ret /\ calls[i].lang = lang}

C7_OneNotificationPerSwitch ==
    /\ \A lang \in LangArgs :
          Cardinality(EventsOf(lang)) = Cardinality(ReturnedTrue(lang))
    /\ \A k \in DOMAIN events :
          /\ events[k].language \in LangArgs
          /\ events[k].current = events[k].language
    /\ \A i \in DOMAIN calls :
          calls[i].pc = "rejected" => ~calls[i].ret
    /\ events # <<>> =>
          /\ langDisplay = currentLang
          /\ currentLang = events[Len(events)].language

\* one call was rejected, one returned true, one notification was dispatched
C7_Witness ==
    /\ \E i \in DOMAIN calls : calls[i].pc = "rejected"
    /\ \E i \in DOMAIN calls :
          /\ calls[i].pc = "returned" /\ calls[i].ret
          /\ events = <<[language |-> calls[i].lang, current |-> calls[i].lang]>>

(***************************************************************************)
(* C8 as stated: once init has completed and no switchLanguage call is in  *)
(* flight, the URL parameter is absent or differs from the default         *)
(* language.                                                               *)
(***************************************************************************)
C8_Original ==
    (/\ initCall.pc \in {"done", "ready"}
     /\ \A i \in DOMAIN calls : ~InFlight(calls[i])) =>
        (urlParam = NULL \/ urlParam # defaultLang)

(***************************************************************************)
(* C8 amended: only a returning switchLanguage(L) call writes the URL      *)
(* parameter, and when the write does not raise the parameter is then      *)
(* absent if L is the default language and L otherwise (it is left as it   *)
(* was when the write raises); init never writes it, so until a switch has *)
(* returned it holds what the page was loaded with, the default language   *)
(* included.                                                               *)
(***************************************************************************)
C8_UrlWrittenBySwitchOnly ==
    [][/\ \A i \in DOMAIN calls :
             Returned(i) =>
                 urlParam' = IF historyDown THEN urlParam
                             ELSE IF calls[i].lang = defaultLang THEN NULL
                             ELSE calls[i].lang
       /\ urlParam' # urlParam => \E i \in DOMAIN calls : Returned(i)
       /\ (~historyDown /\ \E i \in DOMAIN calls : calls'[i].pc = "returned")
              => urlParam' # defaultLang]_vars

\* after a switch to zh-CN and then one to en the parameter is absent
C8_Witness ==
    /\ Len(calls) = 2 /\ ~historyDown
    /\ calls[1].pc = "returned" /\ calls[1].lang = "zh-CN"
    /\ calls[2].pc = "returned" /\ calls[2].lang = "en" /\ calls[2].alone
    /\ urlParam = NULL

(***************************************************************************)
(* getTranslation and interpolate on their own: one evaluation each, on a  *)
(* tree and key (a template and variables) drawn from bounded sets, with   *)
(* the page left as constructed.                                           *)
(***************************************************************************)
IdleMain ==
    /\ currentLang = "en"
    /\ translations = EmptyTree
    /\ storageDown = FALSE
    /\ storage = NULL
    /\ urlParam = NULL
    /\ historyDown = FALSE
    /\ browserLang = "zh-CN"
    /\ htmlLang = NULL
    /\ opacity = "1"
    /\ bodyClass = "i18n-loading"
    /\ langDisplay = NULL
    /\ dom = StaticPage
    /\ initCall = [NewLoad(NULL) EXCEPT !.pc = "start", !.fetches = 0]
    /\ calls = <<>>
    /\ events = <<>>

\* all sequences over `syms` of at most n symbols
SeqsUpTo(syms, n) == UNION {[1..k -> syms] : k \in 0..n}

KeySymbols == {"a", "b", "c", ".", "constructor"}
LookupTrees ==
    { EmptyTree,
      Obj(<<"a">> :> Obj(<<"b">> :> Obj(<<"c">> :> Str(<<"x">>)))),
      Obj(<<"a">> :> Obj(<<"b">> :> EmptyTree)),
      Obj((<<"a">> :> Str(<<"y">>)) @@ (<<"b">> :> Null)
              @@ (<<"c">> :> Obj(<<"a">> :> Str(<<>>)))) }

InitLookup ==
    /\ IdleMain /\ IdleInterp /\ IdleAccordion
    /\ lkTree \in LookupTrees
    /\ lkKey \in SeqsUpTo(KeySymbols, MaxKeyLen)
    /\ lkResult = NONE

\* getTranslation(key) with this.translations = lkTree
DoLookup ==
    /\ lkResult = NONE
    /\ lkResult' = GetTranslation(lkTree, lkKey)
    /\ UNCHANGED <<lkTree, lkKey, mainVars, ipVars3, accVars>>

NextLookup == DoLookup

SpecLookup == InitLookup /\ [][NextLookup]_vars

TextSymbols == {"{", "}", "name", "constructor", " "}
VarsValues ==
    { EmptyTree,
      Obj(<<"name">> :> Str(<<"Sam">>)),
      Obj(<<"name">> :> Str(<<"{", "{", "name", "}", "}">>)) }

InitInterp ==
    /\ IdleMain /\ IdleLookup /\ IdleAccordion
    /\ ipText \in SeqsUpTo(TextSymbols, MaxTextLen)
    /\ ipVars \in VarsValues
    /\ ipResult = NONE

\* interpolate(ipText, ipVars)
DoInterpolate ==
    /\ ipResult = NONE
    /\ ipResult' = Str(Interpolate(ipText, ipVars))
    /\ UNCHANGED <<ipText, ipVars, mainVars, lkVars, accVars>>

NextInterp == DoInterpolate

SpecInterp == InitInterp /\ [][NextInterp]_vars

(***************************************************************************)
(* C9 as stated: lookup(key) is the value stored at the path of the key's  *)
(* segments when every segment is present along the walk, and the key      *)
(* itself when a segment is missing or a value that is no container is     *)
(* reached first; the tree is not modified.                                *)
(***************************************************************************)
\* the value stored in `value` at the path keys[i..], the key when there is none
RECURSIVE StoredAt(_, _, _, _)
StoredAt(value, keys, i, key) ==
    IF i > Len(keys) THEN value
    ELSE IF value.t = "object" /\ keys[i] \in DOMAIN value.f
         THEN StoredAt(value.f[keys[i]], keys, i + 1, key)
         ELSE Str(key)

C9_Original ==
    lkResult # NONE => lkResult = StoredAt(lkTree, Split(lkKey), 1, lkKey)

(***************************************************************************)
(* C10 as stated: interpolate replaces each {{name}} whose name has an     *)
(* entry in the variables by that entry, leaves each {{name}} without an   *)
(* entry and all other text in place, so that interpolate(t, {}) = t.      *)
(***************************************************************************)
\* the template with the placeholders that have an entry replaced, from i on
RECURSIVE Filled(_, _, _)
Filled(text, i, v) ==
    IF i > Len(text) THEN <<>>
    ELSE LET j == WordEnd(text, i + 2)
             isPlaceholder == /\ i + 1 <= Len(text)
                              /\ text[i] = "{" /\ text[i + 1] = "{"
                              /\ j > i + 2
                              /\ j + 1 <= Len(text)
                              /\ text[j] = "}" /\ text[j + 1] = "}"
             name == SubSeq(text, i + 2, j - 1)
         IN IF isPlaceholder
            THEN (IF name \in DOMAIN v.f THEN ToStr(v.f[name])
                  ELSE SubSeq(text, i, j + 1)) \o Filled(text, j + 2, v)
            ELSE <<text[i]>> \o Filled(text, i + 1, v)

C10_Original ==
    ipResult # NONE =>
        /\ ipResult = Str(Filled(ipText, 1, ipVars))
        /\ ipVars = EmptyTree => ipResult = Str(ipText)


(***************************************************************************)
(* Overlapping switchLanguage calls.  A call overlapped another when it    *)
(* was invoked while one was in flight, or one was invoked while it was.   *)
(***************************************************************************)
Completed(c) == c.pc = "returned"
NoneInFlight == \A i \in DOMAIN calls : ~InFlight(calls[i])
SomeOverlapped == \E i \in DOMAIN calls : Completed(calls[i]) /\ ~calls[i].alone

\* the call whose load was the last to resolve, among the calls in `among`
LastOf(among) ==
    CHOOSE i \in among : \A j \in among : calls[j].order <= calls[i].order
LoadedOk == {i \in ResolvedIn(calls) : calls[i].loadOk}

\* the page shows what the tree gives: applying the tree again changes nothing
BindingsOf(tree) == dom = ApplyTranslations(tree, dom)

(***************************************************************************)
(* C11, as stated: once overlapping calls have all completed, the tree is  *)
(* the resource of the load that resolved last and the page's bindings are *)
(* those of that resource.                                                 *)
(***************************************************************************)
C11_Original ==
    (NoneInFlight /\ SomeOverlapped) =>
        /\ translations = Resource(calls[LastOf(ResolvedIn(calls))].target)
        /\ BindingsOf(Resource(calls[LastOf(ResolvedIn(calls))].target))

(***************************************************************************)
(* C11, amended: once overlapping calls have all completed, the tree is    *)
(* the resource fetched by the last load that resolved with a resource     *)
(* (its own language's or, after a fallback, the default's); a load whose  *)
(* fetches all failed leaves the tree as the load before it left it, down  *)
(* to init's load.  The page's bindings are those of that tree.  Which     *)
(* call was invoked first plays no part.                                   *)
(***************************************************************************)
C11_LastLoadedWins ==
    (NoneInFlight /\ SomeOverlapped) =>
        /\ translations =
              IF LoadedOk # {} THEN Resource(calls[LastOf(LoadedOk)].target)
              ELSE IF initCall.loadOk THEN Resource(initCall.target)
              ELSE EmptyTree
        /\ BindingsOf(translations)

\* en was invoked while zh-CN was in flight; en's load resolved first; both
\* calls completed and the tree and the page are those of zh-CN
C11_Witness ==
    /\ Len(calls) = 2
    /\ calls[1].lang = "zh-CN" /\ calls[2].lang = "en"
    /\ ~calls[2].alone
    /\ calls[1].loadOk /\ calls[2].loadOk
    /\ calls[2].order = 1 /\ calls[1].order = 2
    /\ Completed(calls[1]) /\ Completed(calls[2])
    /\ translations = Resource("zh-CN")
    /\ dom[1] = Held("textContent", <<"HomeCN">>)


(***************************************************************************)
(* C12: the opacity of the body is 0.7 in every state where an accepted    *)
(* switchLanguage call has started and not completed, overlapping calls    *)
(* included, and 1 in every state where no call is in flight.              *)
(***************************************************************************)
C12_Original ==
    /\ (\E i \in DOMAIN calls : InFlight(calls[i])) => opacity = "0.7"
    /\ NoneInFlight => opacity = "1"


(***************************************************************************)
(* The page load on its own: init() and the DOMContentLoaded handler, with *)
(* no click on a language option.  Scheduling: DOMContentLoaded is         *)
(* delivered, the fetch that was started settles, and the event loop runs  *)
(* the continuation that is ready.                                         *)
(***************************************************************************)
NextPageLoad == InitStart \/ InitFetchSettle \/ InitContinue \/ MainReady

Fairness ==
    /\ WF_vars(InitStart)
    /\ WF_vars(InitFetchSettle)
    /\ WF_vars(InitContinue)
    /\ WF_vars(MainReady)

PageLoadSpec == Init /\ [][NextPageLoad]_vars /\ Fairness

\* init's load has not resolved yet
InitialLoadPending == initCall.pc \in {"start", "fetching"}

(***************************************************************************)
(* C13: when every fetch that was started settles, init completes whatever *)
(* the fetches give and whatever the URL parameter, the storage slot and   *)
(* the browser locale hold: the body eventually has i18n-ready in place of *)
(* i18n-loading; and it has i18n-loading in every state before the initial *)
(* load resolved.                                                          *)
(***************************************************************************)
C13_Original ==
    /\ <>(bodyClass = "i18n-ready")
    /\ [](InitialLoadPending => bodyClass = "i18n-loading")


(***************************************************************************)
(* C14: when localStorage.setItem or history.replaceState raises during    *)
(* switchLanguage(L), L supported, the call goes on as when they succeed:  *)
(* at its return the current language is L, the bindings have been applied *)
(* again from the tree, the write to the channel that works has been made, *)
(* the opacity is 1, one languageChanged notification carrying L has been  *)
(* dispatched and the call returns true.                                   *)
(***************************************************************************)
C14_WriteFailureSwallowed ==
    [][\A i \in DOMAIN calls :
          (Returned(i) /\ (storageDown \/ historyDown)) =>
              /\ currentLang' = calls[i].lang
              /\ dom' = ApplyTranslations(translations, dom)
              /\ htmlLang' = calls[i].lang
              /\ storageDown =>
                    urlParam' = IF calls[i].lang # defaultLang
                                THEN calls[i].lang ELSE NULL
              /\ historyDown => storage' = calls[i].lang
              /\ opacity' = "1"
              /\ Len(events') = Len(events) + 1
              /\ events'[Len(events')].language = calls[i].lang
              /\ calls'[i].ret
    ]_vars

\* with localStorage raising, zh-CN was switched to: the slot is still empty,
\* the URL carries zh-CN and the notification went out
C14_Witness ==
    /\ storageDown
    /\ Len(calls) = 1 /\ calls[1].lang = "zh-CN"
    /\ Completed(calls[1]) /\ calls[1].ret
    /\ currentLang = "zh-CN" /\ storage = NULL /\ urlParam = "zh-CN"
    /\ opacity = "1"
    /\ Len(events) = 1 /\ events[1].language = "zh-CN"
    /\ dom[1] = Held("textContent", <<"HomeCN">>)


(***************************************************************************)
(* The DOM pass.  A step is a pass when it runs applyTranslations(): the   *)
(* continuation of init and the continuation of a switchLanguage call.     *)
(***************************************************************************)
Pass ==
    \/ initCall.pc = "loaded" /\ initCall'.pc = "done"
    \/ \E i \in DOMAIN calls : Returned(i)

\* what the key of element e resolves to in the tree the pass applies
Resolves(e) == GetTranslation(translations, Elements[e].key)

(***************************************************************************)
(* C15: in a pass, every bound element (text, placeholder, alt or title)   *)
(* whose key resolves to a value that is not a string keeps its text or    *)
(* attribute exactly as it was before the pass.                            *)
(***************************************************************************)
C15_Original ==
    [][Pass => \A e \in DOMAIN Elements :
                  Resolves(e).t # "string" => dom'[e] = dom[e]]_vars


(***************************************************************************)
(* C16: in a pass, every element with a text binding whose key resolves to *)
(* a string is assigned that string (interpolated when the element has a   *)
(* data-i18n-vars payload) as markup when it contains '<' and as plain     *)
(* text when it does not, with a payload or without.                       *)
(***************************************************************************)
C16_Original ==
    [][Pass => \A e \in DOMAIN Elements :
                  (/\ Elements[e].bind = "text"
                   /\ Resolves(e).t = "string" /\ TruthyValue(Resolves(e))) =>
                      dom'[e].how = IF HasMarkup(dom'[e].value)
                                    THEN "innerHTML" ELSE "textContent"]_vars


(***************************************************************************)
(* The fetches of one load, for init's load and for the load of each       *)
(* switchLanguage call.                                                    *)
(***************************************************************************)
\* a load has made at most two fetches, the second one for the default
\* language after a first one for another language
FetchesBounded(c) ==
    /\ c.fetches <= 2
    /\ c.fetches <= 1 => c.target = c.lang
    /\ c.fetches = 2 => c.lang # defaultLang /\ c.target = defaultLang

\* the step from a to b settles the load's fetch
SettledFetch(a, b) ==
    a.pc = "fetching" /\ (b.pc # a.pc \/ b.fetches # a.fetches)

\* the fetch that settled was the last one: the load has returned
Resolved(a, b) ==
    b.pc = "loaded" /\ b.fetches = a.fetches /\ b.target = a.target

\* the fetch that settled was the first one, for a language other than the
\* default, and it failed: one fetch for the default language is started
FellBackOnce(a, b) ==
    /\ a.fetches = 1 /\ a.lang # defaultLang /\ a.target = a.lang
    /\ b.pc = "fetching" /\ b.fetches = 2 /\ b.target = defaultLang
    /\ ~b.loadOk

\* every fetch that settles in this step ends its load or starts its fallback
SettlesEndOrFallBack ==
    /\ SettledFetch(initCall, initCall') =>
          Resolved(initCall, initCall') \/ FellBackOnce(initCall, initCall')
    /\ \A i \in DOMAIN calls :
          SettledFetch(calls[i], calls'[i]) =>
             /\ Resolved(calls[i], calls'[i]) \/ FellBackOnce(calls[i], calls'[i])
             /\ calls[i].target = defaultLang => Resolved(calls[i], calls'[i])

(***************************************************************************)
(* C17: a load makes at most two fetches, one for its language and, only   *)
(* after that one failed and when the language is not the default, one for *)
(* the default language; each fetch that settles either ends the load or   *)
(* is the first one failing and starts that single fallback, so a failure  *)
(* of the default language's fetch always ends the load.                   *)
(***************************************************************************)
C17_AtMostTwoFetches ==
    /\ [](/\ FetchesBounded(initCall)
          /\ \A i \in DOMAIN calls : FetchesBounded(calls[i]))
    /\ [][SettlesEndOrFallBack]_vars

\* zh-CN was switched to, its fetch failed, then the fetch of en failed: the
\* load returned false after two fetches and the call went on
C17_Witness ==
    /\ Len(calls) >= 1
    /\ calls[1].lang = "zh-CN" /\ calls[1].target = "en"
    /\ calls[1].fetches = 2 /\ ~calls[1].loadOk
    /\ Completed(calls[1])


\* some accepted switchLanguage call has returned
SomeCompleted == \E i \in DOMAIN calls : Completed(calls[i])

(***************************************************************************)
(* C18: once an accepted switchLanguage call has completed, and with       *)
(* localStorage and history working, the storage slot, the html lang       *)
(* attribute and getCurrentLanguage() hold the same code in every state,   *)
(* and the URL parameter holds that code, or is absent when the code is    *)
(* the default language.  (Every state of the model lies between two       *)
(* continuations, none is inside one.)                                     *)
(***************************************************************************)
C18_IndicatorsAgree ==
    (SomeCompleted /\ ~storageDown /\ ~historyDown) =>
        /\ storage = currentLang
        /\ htmlLang = currentLang
        /\ urlParam = IF currentLang # defaultLang THEN currentLang ELSE NULL

\* after two overlapping calls, the one invoked first completing last, the
\* four indicators hold zh-CN
C18_Witness ==
    /\ ~storageDown /\ ~historyDown
    /\ Len(calls) = 2
    /\ calls[1].lang = "zh-CN" /\ calls[2].lang = "en" /\ ~calls[2].alone
    /\ Completed(calls[1]) /\ Completed(calls[2])
    /\ currentLang = "zh-CN" /\ storage = "zh-CN"
    /\ htmlLang = "zh-CN" /\ urlParam = "zh-CN"


\* every fetch made so far by a switchLanguage call succeeded
EveryFetchSucceeded ==
    \A i \in DOMAIN calls :
        calls[i].fetches <= 1 /\ (calls[i].order > 0 => calls[i].loadOk)

\* this step dispatches the notification of call i
Notified(i) == Returned(i) /\ Len(events') = Len(events) + 1

\* the bindings this step leaves are those applied from the resource of lang
AppliedFrom(lang) == dom' = ApplyTranslations(Resource(lang), dom)

(***************************************************************************)
(* C19: when switchLanguage calls for supported languages overlap and      *)
(* every fetch succeeds, once all calls have completed the tree is the     *)
(* resource of the language getCurrentLanguage() reports; and at every     *)
(* languageChanged notification the page's bindings are those applied from *)
(* the resource of the language the notification carries.                  *)
(***************************************************************************)
C19_TreeMatchesLanguage ==
    /\ []((NoneInFlight /\ SomeOverlapped /\ EveryFetchSucceeded) =>
             translations = Resource(currentLang))
    /\ [][\A i \in DOMAIN calls :
             (Notified(i) /\ EveryFetchSucceeded) =>
                AppliedFrom(events'[Len(events')].language)]_vars

\* en was invoked while zh-CN was in flight and its load resolved first; both
\* fetches succeeded, both notifications went out, zh-CN's last, and the tree
\* and the current language are zh-CN's
C19_Witness ==
    /\ Len(calls) = 2 /\ EveryFetchSucceeded
    /\ calls[1].lang = "zh-CN" /\ calls[2].lang = "en" /\ ~calls[2].alone
    /\ calls[2].order = 1 /\ calls[1].order = 2
    /\ Completed(calls[1]) /\ Completed(calls[2])
    /\ Len(events) = 2
    /\ events[1].language = "en" /\ events[2].language = "zh-CN"
    /\ currentLang = "zh-CN" /\ translations = Resource("zh-CN")
    /\ dom[8] = Held("setAttribute", <<"PromoCN">>)


(***************************************************************************)
(* The mobile dropdown accordion, main.js lines 89-116.  Dropdown d has a  *)
(* trigger with data-dropdown = d holding a chevron, and a menu with       *)
(* data-menu = d.  The page may arrive with any of the menus marked active *)
(* and any of the chevrons rotated.  The click handlers are registered by  *)
(* the DOMContentLoaded handler once init() has returned.                  *)
(***************************************************************************)
Markings == [Dropdowns -> BOOLEAN]

\* lines 99-113: the menus' marks after a click on the trigger of d
MenusAfterToggle(active, d) == [active EXCEPT ![d] = ~@]
MenusAfterClick(active, d) == [m \in Dropdowns |-> m = d /\ ~active[d]]

\* lines 99-113: the chevrons' marks after a click on the trigger of d, whose
\* menu was active or not
ChevronsAfterClick(isActive, d) == [c \in Dropdowns |-> c = d /\ ~isActive]

\* a click on the trigger of d
ClickTrigger(d) ==
    /\ initCall.pc = "ready"
    /\ Len(clicks) < MaxClicks
    /\ menuActive' = MenusAfterClick(menuActive, d)
    /\ chevronRotated' = ChevronsAfterClick(menuActive[d], d)
    /\ clicks' = Append(clicks, d)
    /\ UNCHANGED <<mainVars, lkVars, ipVars3>>

InitAccordion ==
    /\ IdleMain /\ IdleLookup /\ IdleInterp
    /\ menuActive \in Markings
    /\ chevronRotated \in Markings
    /\ clicks = <<>>

NextAccordion ==
    \/ InitStart
    \/ InitFetchSettle
    \/ InitContinue
    \/ MainReady
    \/ \E d \in Dropdowns : ClickTrigger(d)

SpecAccordion == InitAccordion /\ [][NextAccordion]_vars

\* the dropdowns marked in a marking
Marked(marking) == {d \in Dropdowns : marking[d]}

\* this step is a click on the trigger of d
Clicked(d) == clicks' = Append(clicks, d)

(***************************************************************************)
(* C20: whatever the menus and chevrons were marked with when the page     *)
(* arrived, once a dropdown trigger has been clicked at most one menu is   *)
(* active and at most one chevron is rotated; a click on the trigger of a  *)
(* menu that is not active leaves that menu alone active and its chevron   *)
(* alone rotated; a click on the trigger of an active menu leaves no menu  *)
(* active and no chevron rotated.                                          *)
(***************************************************************************)
C20_AccordionOneOpen ==
    /\ [](clicks # <<>> =>
             /\ Cardinality(Marked(menuActive)) <= 1
             /\ Cardinality(Marked(chevronRotated)) <= 1)
    /\ [][\A d \in Dropdowns :
             Clicked(d) =>
                IF menuActive[d]
                THEN Marked(menuActive') = {} /\ Marked(chevronRotated') = {}
                ELSE Marked(menuActive') = {d} /\ Marked(chevronRotated') = {d}]_vars

\* trigger 1 was clicked, then trigger 2, whose menu was not active: menu 2
\* alone is active and chevron 2 alone is rotated
C20_Witness ==
    /\ clicks = <<1, 2>>
    /\ Marked(menuActive) = {2} /\ Marked(chevronRotated) = {2}

=============================================================================
